---- MODULE Spec2Model ----
(***************************************************************************)
(* Model of src/libcalamares/utils/Retranslator.cpp (Calamares).           *)
(*                                                                         *)
(* Two parts share the module:                                             *)
(*   - the translator registry: mungeLocaleName, the three loaders,        *)
(*     loadSingletonTranslator and installTranslator, stepped statement by *)
(*     statement so that the intermediate states are visible;              *)
(*   - the retranslation hub: retranslatorFor, attachRetranslator and      *)
(*     eventFilter, run on an explicit call stack so that callbacks that   *)
(*     throw or that attach further callbacks are covered.                 *)
(* Strings are sequences of one-character strings.                         *)
(***************************************************************************)
EXTENDS Integers, Sequences, FiniteSets, TLC

\* ------------------------------------------------------------------ bounds
MaxNameLen == 3      \* longest locale name enumerated for mungeLocaleName
MaxInstalls == 2     \* installTranslator calls per behaviour
MaxForeign == 1      \* translators installed by code outside this file
MaxFuncs == 3        \* longest m_retranslateFuncList of the first parent
MaxFuncsFar == 1     \* longest m_retranslateFuncList of the other parent
MaxOther == 1        \* non-Retranslator children per parent

\* ----------------------------------------------------------------- strings
NullPtr == 0

EmptyString == << >>

RECURSIVE lastIndexOf(_, _)
\* QString::lastIndexOf, 0-based, -1 when the character is absent
lastIndexOf(s, ch) ==
  IF Len(s) = 0 THEN -1
  ELSE IF s[Len(s)] = ch THEN Len(s) - 1
  ELSE lastIndexOf(SubSeq(s, 1, Len(s) - 1), ch)

\* QString::truncate(pos): a negative position truncates to the empty string
truncate(s, pos) ==
  IF pos < 0 THEN EmptyString
  ELSE IF pos >= Len(s) THEN s
  ELSE SubSeq(s, 1, pos)

\* QString::remove(0, n)
removeFront(s, n) ==
  IF n <= 0 THEN s
  ELSE IF n >= Len(s) THEN EmptyString
  ELSE SubSeq(s, n + 1, Len(s))

\* QString::replace(before, after) for single characters: every occurrence
replace(s, before, after) ==
  [i \in 1..Len(s) |-> IF s[i] = before THEN after ELSE s[i]]

\* a wrong replace: only the first occurrence is rewritten
replaceFirstOnly(s, before, after) ==
  [i \in 1..Len(s) |->
     IF s[i] = before /\ (\A j \in 1..(i - 1) : s[j] # before)
     THEN after ELSE s[i]]

\* a wrong rewrite: only the first dash
DashToUnderscoreFirstOnly(s) == replaceFirstOnly(s, "-", "_")

\* localeName.replace( "-", "_" )
DashToUnderscore(s) == replace(s, "-", "_")

Separator == "/"

\* ----------------------------------------------------------------- locales
Languages == {"Serbian", "English", "AnyLanguage"}
Scripts == {"LatinScript", "CyrillicScript", "AnyScript"}
NameChars == {"C", "-", "_", "e"}

RECURSIVE StringsUpTo(_)
StringsUpTo(n) ==
  IF n = 0 THEN {EmptyString}
  ELSE LET shorter == StringsUpTo(n - 1)
       IN shorter \cup {Append(s, c) : s \in {t \in shorter : Len(t) = n - 1}, c \in NameChars}

LocaleNames == StringsUpTo(MaxNameLen)

MkLocale(n, l, s) == [name |-> n, language |-> l, script |-> s]

\* every QLocale the loaders may be constructed with
Locales == {MkLocale(n, l, s) : n \in LocaleNames, l \in Languages, s \in Scripts}

NoLocale == MkLocale(<<"?">>, "None", "None")

\* a mungeLocaleName without the sr@latin special case
mungeWithoutSerbian(locale) ==
  LET localeName == DashToUnderscore(locale.name)
  IN IF localeName = <<"C">> THEN <<"e", "n">> ELSE localeName

SrLatin == <<"s", "r", "@", "l", "a", "t", "i", "n">>

mungeLocaleName(locale) ==
  LET replaced == DashToUnderscore(locale.name)
      localeName == IF replaced = <<"C">> THEN <<"e", "n">> ELSE replaced
  IN IF locale.language = "Serbian" /\ locale.script = "LatinScript"
     THEN SrLatin
     ELSE localeName

\* m_prefix of a loader that has none (TZLoader, CalamaresLoader)
NoPrefix == <<"?">>

NoLoader == [kind |-> "None", m_locale |-> NoLocale, m_localeName |-> EmptyString,
             m_prefix |-> NoPrefix]

\* TranslationLoader( locale ): m_locale( locale ), m_localeName( mungeLocaleName( locale ) )
TranslationLoader(kind, locale, prefix) ==
  [kind |-> kind, m_locale |-> locale, m_localeName |-> mungeLocaleName(locale),
   m_prefix |-> prefix]


\* ------------------------------------------------------- translator registry
Domains == {"Branding", "Timezone", "Application"}

\* a wrong order: the timezone slot first
DomainOrderTzFirst == <<"Timezone", "Branding", "Application">>

\* installTranslator swaps the branding slot, then the timezone slot, then the
\* application slot
DomainOrder == <<"Branding", "Timezone", "Application">>

CalamaresResource ==
  <<":", "/", "l", "a", "n", "g", "/", "c", "a", "l", "a", "m", "a", "r", "e", "s", "_">>
TZResource == <<":", "/", "l", "a", "n", "g", "/", "t", "z", "_">>
En == <<"e", "n">>

\* locales and branding prefixes installTranslator is called with
InstallLocales ==
  { MkLocale(<<"C">>, "AnyLanguage", "AnyScript"),
    MkLocale(<<"e", "-", "C">>, "English", "LatinScript"),
    MkLocale(<<"e", "_", "C">>, "Serbian", "LatinScript") }

Prefixes ==
  { EmptyString, <<"b">>, <<"d", "/", "b">> }

\* what a QTranslator::load call is asked to load
NoTarget == [form |-> "none", path |-> EmptyString, locale |-> NoLocale,
             stem |-> EmptyString, sep |-> EmptyString, dir |-> EmptyString]

\* translator->load( filename )
PathTarget(path) == [NoTarget EXCEPT !.form = "path", !.path = path]

\* translator->load( locale, filename, prefix, directory )
StructuredTarget(locale, stem, sep, dir) ==
  [form |-> "structured", path |-> EmptyString, locale |-> locale,
   stem |-> stem, sep |-> sep, dir |-> dir]

\* BrandingLoader::tryLoad: the directory part of m_prefix
brandingTranslationsDirPath(prefix) == truncate(prefix, lastIndexOf(prefix, Separator))

\* BrandingLoader::tryLoad: the file name part of m_prefix
filenameBase(prefix) == removeFront(prefix, lastIndexOf(prefix, Separator) + 1)

\* the working directory of the process
CurrentDir == << "/", "w" >>

\* QDir( path ).absolutePath(): the empty path is the working directory, a
\* relative path is taken from the working directory
absolutePath(path) ==
  IF Len(path) = 0 THEN CurrentDir
  ELSE IF path[1] = Separator THEN path
  ELSE CurrentDir \o << Separator >> \o path

\* the first load of each loader
PrimaryTarget(ld) ==
  IF ld.kind = "Branding"
  THEN StructuredTarget(ld.m_locale, filenameBase(ld.m_prefix), <<"_">>,
                        absolutePath(brandingTranslationsDirPath(ld.m_prefix)))
  ELSE IF ld.kind = "Timezone" THEN PathTarget(TZResource \o ld.m_localeName)
  ELSE PathTarget(CalamaresResource \o ld.m_localeName)

\* a wrong branding fallback: the structured load again, for the locale en
FallbackTargetStructured(ld) ==
  IF ld.kind = "Branding"
  THEN StructuredTarget(MkLocale(En, "English", "AnyScript"), filenameBase(ld.m_prefix),
                        <<"_">>, absolutePath(brandingTranslationsDirPath(ld.m_prefix)))
  ELSE IF ld.kind = "Timezone" THEN PathTarget(TZResource \o En)
  ELSE PathTarget(CalamaresResource \o En)

\* the load in the else branch of each loader
FallbackTarget(ld) ==
  IF ld.kind = "Branding" THEN PathTarget(ld.m_prefix \o En)
  ELSE IF ld.kind = "Timezone" THEN PathTarget(TZResource \o En)
  ELSE PathTarget(CalamaresResource \o En)

MaxCatalogs == 3 * MaxInstalls
CatalogIds == 1..MaxCatalogs
ForeignIds == {-1}

FreeCatalog == [st |-> "free", dom |-> "None", era |-> 0, content |-> NoTarget]

VARIABLES
  s_brandingTranslator,    \* static QTranslator*: a catalog id or NullPtr
  s_tztranslator,          \* static QTranslator*
  s_translator,            \* static QTranslator*
  s_translatorLocaleName,  \* static QString
  translators,             \* QCoreApplication's list of installed translators
  heap,                    \* the QTranslator objects made by this file
  loader,                  \* the TranslationLoader under construction or in use
  call,                    \* activation record of installTranslator
  ilog,                    \* what the running (or last) installTranslator did
  installs,                \* number of installTranslator calls so far
  foreign                  \* number of foreign translators installed so far

VARIABLES
  children,      \* QObject::children() of every parent
  eventFilters,  \* the event filters installed on every parent
  retr,          \* the Retranslator objects
  stack,         \* the call stack of the UI thread, innermost frame last
  op,            \* the outermost call in progress, or the last one
  trace,         \* what that call has done so far
  attached,      \* the callbacks passed to attachRetranslator, per parent
  returned       \* the objects retranslatorFor has returned, per parent

hubVars == << children, eventFilters, retr, stack, op, trace, attached, returned >>

\* nothing runs on the UI thread
Idle == stack = << >> /\ call.pc = "idle"

regVars == << s_brandingTranslator, s_tztranslator, s_translator,
              s_translatorLocaleName, translators, heap, loader, call, ilog,
              installs, foreign >>

IdleCall == [pc |-> "idle", locale |-> NoLocale, prefix |-> NoPrefix, d |-> 0,
             translator |-> NullPtr, ok |-> FALSE,
             before |-> [x \in Domains |-> NullPtr]]

Slot(dom) ==
  IF dom = "Branding" THEN s_brandingTranslator
  ELSE IF dom = "Timezone" THEN s_tztranslator
  ELSE s_translator

Slots == [dom \in Domains |-> Slot(dom)]

\* translator_p = v for the slot of dom, the other two slots untouched
SetSlot(dom, v) ==
  /\ s_brandingTranslator' = IF dom = "Branding" THEN v ELSE s_brandingTranslator
  /\ s_tztranslator' = IF dom = "Timezone" THEN v ELSE s_tztranslator
  /\ s_translator' = IF dom = "Application" THEN v ELSE s_translator

SlotsUnchanged == UNCHANGED << s_brandingTranslator, s_tztranslator, s_translator >>

Dom == IF call.d \in 1..3 THEN DomainOrder[call.d] ELSE "None"

Ev(e, id, target, ok) ==
  [e |-> e, dom |-> Dom, id |-> id, target |-> target, ok |-> ok]

Log(e, id, target, ok) == ilog' = Append(ilog, Ev(e, id, target, ok))

\* tryLoad returns ok; loadSingletonTranslator ignores the value (line 150)
Returned(ok) == Ev("tryLoad", call.translator, NoTarget, ok)

\* an event followed by the return of tryLoad
LogAndReturn(e, id, target, ok, result) ==
  ilog' = ilog \o << Ev(e, id, target, ok), Returned(result) >>

\* QList::removeAll
RemoveAll(seq, x) == SelectSeq(seq, LAMBDA y : y # x)

\* a wrong release that forgets to take the catalog out of the host list
removeTranslatorNoop(list, t) == list

\* QCoreApplication::removeTranslator
removeTranslator(list, t) == RemoveAll(list, t)

\* QCoreApplication::installTranslator: the list is searched front to back
installTranslatorInList(list, t) == << t >> \o list

Range(seq) == {seq[i] : i \in 1..Len(seq)}

RegInit ==
  /\ s_brandingTranslator = NullPtr
  /\ s_tztranslator = NullPtr
  /\ s_translator = NullPtr
  /\ s_translatorLocaleName = EmptyString
  /\ translators = << >>
  /\ heap = [id \in CatalogIds |-> FreeCatalog]
  /\ loader = NoLoader
  /\ call = IdleCall
  /\ ilog = << >>
  /\ installs = 0
  /\ foreign = 0


\* translators installed by this file's code
OwnInstalled == {t \in Range(translators) : t \in CatalogIds}

LowestFree == CHOOSE id \in CatalogIds :
                /\ heap[id].st = "free"
                /\ \A j \in CatalogIds : heap[j].st = "free" => id <= j

\* m_prefix.isEmpty()
isEmpty(s) == Len(s) = 0

\* loadSingletonTranslator, lines 152-158: a wrong test that never releases
NeedsReleaseNever(old) == FALSE

\* loadSingletonTranslator, line 152: if ( translator_p )
NeedsRelease(old) == old # NullPtr

\* where loadSingletonTranslator continues once tryLoad has returned
AfterTryLoad == IF NeedsRelease(Slot(Dom)) THEN "remove" ELSE "install"

\* a wrong delete that leaks the old catalog
deleteTranslatorLeak(c) == c

\* line 155: delete translator_p
deleteTranslator(c) == [c EXCEPT !.st = "dead", !.content = NoTarget]

\* a wrong line 159 that keeps the previous pointer when tryLoad failed
StoredPointerKeep(new, old, ok) == IF ok THEN new ELSE old

\* line 159: translator_p = translator, whatever tryLoad returned
StoredPointer(new, old, ok) == new

\* a wrong loadSingletonTranslator that releases the old catalog before it
\* loads the new one
FirstLoadPcDropFirst(ld) ==
  IF NeedsRelease(Slot(Dom)) THEN "remove"
  ELSE IF ld.kind = "Branding" THEN "checkPrefix" ELSE "primary"

\* a wrong CalamaresLoader::tryLoad entry: the prefix test of the branding loader
\* is skipped
FirstLoadPcNoPrefixTest(ld) == IF ld.kind = "Branding" THEN "dirExists" ELSE "primary"

\* where tryLoad of each loader starts
FirstLoadPc(ld) == IF ld.kind = "Branding" THEN "checkPrefix" ELSE "primary"

\* a wrong line 177: the raw locale name is recorded
RecordedNameRaw(ld) == ld.m_locale.name

\* line 177: s_translatorLocaleName = l.m_localeName
RecordedName(ld) == ld.m_localeName

\* installTranslator is entered
InstallBegin(l, prefix) ==
  /\ Idle
  /\ installs < MaxInstalls
  /\ installs' = installs + 1
  /\ call' = [pc |-> "construct", locale |-> l, prefix |-> prefix, d |-> 1,
              translator |-> NullPtr, ok |-> FALSE, before |-> Slots]
  /\ ilog' = << >>
  /\ SlotsUnchanged
  /\ UNCHANGED << s_translatorLocaleName, translators, heap, loader, foreign >>

\* lines 172, 173, 175: the loader of the next domain is constructed
Construct ==
  /\ call.pc = "construct"
  /\ loader' = TranslationLoader(Dom, call.locale,
                                 IF Dom = "Branding" THEN call.prefix ELSE NoPrefix)
  /\ call' = [call EXCEPT !.pc = "new", !.translator = NullPtr, !.ok = FALSE]
  /\ SlotsUnchanged
  /\ UNCHANGED << s_translatorLocaleName, translators, heap, ilog, installs, foreign >>

\* line 149: QTranslator* translator = new QTranslator()
New ==
  /\ call.pc = "new"
  /\ \E id \in CatalogIds : heap[id].st = "free"
  /\ LET id == LowestFree
     IN /\ heap' = [heap EXCEPT ![id] = [st |-> "live", dom |-> Dom, era |-> installs,
                                         content |-> NoTarget]]
        /\ call' = [call EXCEPT !.pc = FirstLoadPc(loader), !.translator = id]
        /\ Log("new", id, NoTarget, TRUE)
  /\ SlotsUnchanged
  /\ UNCHANGED << s_translatorLocaleName, translators, loader, installs, foreign >>

\* BrandingLoader::tryLoad, lines 79-82
CheckPrefix ==
  /\ call.pc = "checkPrefix"
  /\ call' = IF isEmpty(loader.m_prefix)
             THEN [call EXCEPT !.pc = AfterTryLoad, !.ok = FALSE]
             ELSE [call EXCEPT !.pc = "dirExists"]
  /\ ilog' = IF isEmpty(loader.m_prefix) THEN Append(ilog, Returned(FALSE)) ELSE ilog
  /\ SlotsUnchanged
  /\ UNCHANGED << s_translatorLocaleName, translators, heap, loader, installs, foreign >>

\* BrandingLoader::tryLoad, lines 83-86 and 102: brandingTranslationsDir.exists()
DirExists(exists) ==
  /\ call.pc = "dirExists"
  /\ LET dir == PathTarget(brandingTranslationsDirPath(loader.m_prefix))
     IN IF exists
        THEN Log("exists", call.translator, dir, TRUE)
        ELSE LogAndReturn("exists", call.translator, dir, FALSE, FALSE)
  /\ call' = IF exists
             THEN [call EXCEPT !.pc = "primary"]
             ELSE [call EXCEPT !.pc = AfterTryLoad, !.ok = FALSE]
  /\ SlotsUnchanged
  /\ UNCHANGED << s_translatorLocaleName, translators, heap, loader, installs, foreign >>

\* QTranslator::load: the catalog holds the target when the load succeeds
Loaded(id, target, ok) ==
  heap' = [heap EXCEPT ![id].content = IF ok THEN target ELSE NoTarget]

\* a wrong tryLoad that goes on to the default locale whatever the first load did
AfterPrimaryAlwaysFallback(ok) == "fallback"

\* lines 90-100, 114-123, 132-142: the else branch is taken when the load failed
AfterPrimary(ok) == IF ok THEN AfterTryLoad ELSE "fallback"

\* lines 90, 114, 132: the load of the requested locale
Primary(ok) ==
  /\ call.pc = "primary"
  /\ IF ok
     THEN LogAndReturn("load", call.translator, PrimaryTarget(loader), TRUE, TRUE)
     ELSE Log("load", call.translator, PrimaryTarget(loader), FALSE)
  /\ Loaded(call.translator, PrimaryTarget(loader), ok)
  /\ call' = [call EXCEPT !.pc = AfterPrimary(ok), !.ok = ok]
  /\ SlotsUnchanged
  /\ UNCHANGED << s_translatorLocaleName, translators, loader, installs, foreign >>

\* lines 99, 122, 141: the load of the default locale
Fallback(ok) ==
  /\ call.pc = "fallback"
  /\ LogAndReturn("load", call.translator, FallbackTarget(loader), ok, ok)
  /\ Loaded(call.translator, FallbackTarget(loader), ok)
  /\ call' = [call EXCEPT !.pc = AfterTryLoad, !.ok = ok]
  /\ SlotsUnchanged
  /\ UNCHANGED << s_translatorLocaleName, translators, loader, installs, foreign >>

\* line 154: QCoreApplication::removeTranslator( translator_p )
Remove ==
  /\ call.pc = "remove"
  /\ translators' = removeTranslator(translators, Slot(Dom))
  /\ Log("remove", Slot(Dom), NoTarget, TRUE)
  /\ call' = [call EXCEPT !.pc = "delete"]
  /\ SlotsUnchanged
  /\ UNCHANGED << s_translatorLocaleName, heap, loader, installs, foreign >>

\* line 155: delete translator_p
Delete ==
  /\ call.pc = "delete"
  /\ heap' = [heap EXCEPT ![Slot(Dom)] = deleteTranslator(@)]
  /\ Log("delete", Slot(Dom), NoTarget, TRUE)
  /\ call' = [call EXCEPT !.pc = "install"]
  /\ SlotsUnchanged
  /\ UNCHANGED << s_translatorLocaleName, translators, loader, installs, foreign >>

\* line 158: QCoreApplication::installTranslator( translator )
Install ==
  /\ call.pc = "install"
  /\ translators' = installTranslatorInList(translators, call.translator)
  /\ Log("install", call.translator, NoTarget, TRUE)
  /\ call' = [call EXCEPT !.pc = "store"]
  /\ SlotsUnchanged
  /\ UNCHANGED << s_translatorLocaleName, heap, loader, installs, foreign >>

\* line 159: translator_p = translator, then on to the next loader
Store ==
  /\ call.pc = "store"
  /\ SetSlot(Dom, StoredPointer(call.translator, Slot(Dom), call.ok))
  /\ Log("store", call.translator, NoTarget, TRUE)
  /\ call' = IF call.d < 3
             THEN [call EXCEPT !.pc = "construct", !.d = call.d + 1]
             ELSE [call EXCEPT !.pc = "setName"]
  /\ UNCHANGED << s_translatorLocaleName, translators, heap, loader, installs, foreign >>

\* line 177, and installTranslator returns
SetName ==
  /\ call.pc = "setName"
  /\ s_translatorLocaleName' = RecordedName(loader)
  /\ call' = [call EXCEPT !.pc = "idle"]
  /\ SlotsUnchanged
  /\ UNCHANGED << translators, heap, loader, ilog, installs, foreign >>

\* code outside this file installs a translator of its own
ForeignInstall(t) ==
  /\ Idle
  /\ foreign < MaxForeign
  /\ foreign' = foreign + 1
  /\ translators' = installTranslatorInList(translators, t)
  /\ SlotsUnchanged
  /\ UNCHANGED << s_translatorLocaleName, heap, loader, call, ilog, installs >>

\* TranslationLoader's constructor on its own, for every locale
NewTranslationLoader(l) ==
  /\ Idle
  /\ installs = 0
  /\ loader = NoLoader
  /\ loader' = TranslationLoader("Application", l, NoPrefix)
  /\ SlotsUnchanged
  /\ UNCHANGED << s_translatorLocaleName, translators, heap, call, ilog, installs,
                  foreign >>

\* ---------------------------------------------------------- retranslation hub
Parents == {"p1", "p2"}

\* the callbacks handed to attachRetranslator: "A" only returns, "T" throws
\* or returns,
\* "N" calls attachRetranslator( NestedParent, NestedFunc ) and returns
Callbacks == {"A", "T", "N"}
NestedParent == "p1"
NestedFunc == "A"

EventTypes == {"LanguageChange", "Paint"}

MaxRetranslators == Cardinality(Parents) + 1
RetrIds == 1..MaxRetranslators

NoRetranslator == [alive |-> FALSE, parent |-> "none", m_retranslateFuncList |-> << >>]

NoFrame == [k |-> "none", p |-> "none", f |-> "none", r |-> NullPtr, obj |-> "none",
            ev |-> "none", snap |-> << >>, i |-> 0, pc |-> "none"]

NoOp == [kind |-> "none", p |-> "none", f |-> "none", r |-> NullPtr, obj |-> "none",
         ev |-> "none", status |-> "none", before |-> << >>, att |-> << >>,
         result |-> NullPtr, consumed |-> "unset", redo |-> << >>]

vars == << s_brandingTranslator, s_tztranslator, s_translator,
           s_translatorLocaleName, translators, heap, loader, call, ilog,
           installs, foreign, children, eventFilters, retr, stack, op, trace,
           attached, returned >>

HubInit ==
  /\ children = [p \in Parents |-> << >>]
  /\ eventFilters = [p \in Parents |-> << >>]
  /\ retr = [r \in RetrIds |-> NoRetranslator]
  /\ stack = << >>
  /\ op = NoOp
  /\ trace = << >>
  /\ attached = [p \in Parents |-> << >>]
  /\ returned = [p \in Parents |-> {}]

Init == RegInit /\ HubInit

RetranslatorChild(r) == [cls |-> "Retranslator", id |-> r]
OtherChild(n) == [cls |-> "QObject", id |-> n]

\* qobject_cast< Retranslator* >( child )
qobject_cast(child) == IF child.cls = "Retranslator" THEN child.id ELSE NullPtr

\* a wrong scan: no child is ever recognised
FindRetranslatorNever(p) == NullPtr

\* retranslatorFor, lines 190-198: the first Retranslator among the children
FindRetranslator(p) ==
  LET hits == {i \in 1..Len(children[p]) : qobject_cast(children[p][i]) # NullPtr}
  IN IF hits = {} THEN NullPtr
     ELSE qobject_cast(children[p][CHOOSE i \in hits : \A j \in hits : i <= j])

FreshRetr == CHOOSE r \in RetrIds :
               /\ ~retr[r].alive
               /\ \A j \in RetrIds : ~retr[j].alive => r <= j

\* whether retranslatorFor( p ) can be modelled: an object id is left if needed
CanRetranslatorFor(p) ==
  FindRetranslator(p) # NullPtr \/ \E r \in RetrIds : ~retr[r].alive

\* the object retranslatorFor( p ) returns
retranslatorForResult(p) ==
  IF FindRetranslator(p) # NullPtr THEN FindRetranslator(p) ELSE FreshRetr

\* a wrong append that leaves out a callback the list already holds
appendFuncsUnique(list, add) ==
  list \o SelectSeq(add, LAMBDA f : \A i \in 1..Len(list) : list[i] # f)

\* line 206: m_retranslateFuncList.append( retranslateFunc )
appendFuncs(list, add) == list \o add

\* the objects after retranslatorFor( p ) followed by an append of the
\* callbacks in add to the returned object's list (lines 187-201, 211-215)
retranslatorFor(p, add) ==
  LET found == FindRetranslator(p)
      r == retranslatorForResult(p)
  IN /\ IF found # NullPtr
        THEN /\ retr' = [retr EXCEPT ![r].m_retranslateFuncList = appendFuncs(@, add)]
             /\ UNCHANGED << children, eventFilters >>
        ELSE /\ retr' = [retr EXCEPT ![r] = [alive |-> TRUE, parent |-> p,
                                              m_retranslateFuncList |->
                                                appendFuncs(<< >>, add)]]
             /\ children' = [children EXCEPT ![p] = Append(@, RetranslatorChild(r))]
             /\ eventFilters' = [eventFilters EXCEPT ![p] = << r >> \o @]
     /\ returned' = [returned EXCEPT ![p] = @ \cup {r}]

\* the list of the Retranslator retranslatorFor( p ) would find
FuncsOf(p) ==
  IF FindRetranslator(p) = NullPtr THEN << >>
  ELSE retr[FindRetranslator(p)].m_retranslateFuncList

Count(seq, x) == Cardinality({i \in 1..Len(seq) : seq[i] = x})

\* the longest list the model lets a parent's Retranslator grow to
Cap(p) == IF p = NestedParent THEN MaxFuncs ELSE MaxFuncsFar

Top == stack[Len(stack)]
Pop == SubSeq(stack, 1, Len(stack) - 1)
ReplaceTop(fr) == [stack EXCEPT ![Len(stack)] = fr]

TraceEv(e, x, by, d) == [e |-> e, x |-> x, by |-> by, d |-> d]

\* the status of the outermost call once the frame on top has returned
AfterPop == IF Len(stack) = 1 THEN [op EXCEPT !.status = "returned"] ELSE op

\* retranslatorFor is called on its own
RetranslatorForCall(p) ==
  /\ Idle
  /\ CanRetranslatorFor(p)
  /\ retranslatorFor(p, << >>)
  /\ op' = [NoOp EXCEPT !.kind = "retranslatorFor", !.p = p, !.status = "returned",
                        !.result = retranslatorForResult(p)]
  /\ trace' = IF FindRetranslator(p) = NullPtr
              THEN << TraceEv("new", "none", "retranslatorFor", 0) >>
              ELSE << >>
  /\ UNCHANGED << stack, attached >>

\* attachRetranslator( p, f ) is called from outside
AttachBegin(p, f) ==
  /\ Idle
  /\ Len(FuncsOf(p)) + 1 <= Cap(p)
  /\ f = "N" =>
       Len(FuncsOf(NestedParent)) + (IF p = NestedParent THEN 2 ELSE 1) <= MaxFuncs
  /\ stack' = << [NoFrame EXCEPT !.k = "attach", !.p = p, !.f = f, !.pc = "append"] >>
  /\ op' = [NoOp EXCEPT !.kind = "attach", !.p = p, !.f = f, !.status = "running",
                        !.before = FuncsOf(p), !.att = attached[p]]
  /\ trace' = << >>
  /\ attached' = [attached EXCEPT ![p] = Append(@, f)]
  /\ UNCHANGED << children, eventFilters, retr, returned >>

\* a wrong attachRetranslator that never calls the callback
AfterAppendSkip == "ret"

\* attachRetranslator goes on from line 206 to line 207
AfterAppend == "invoke"

\* line 206: retranslatorFor( parent )->m_retranslateFuncList.append( retranslateFunc )
AttachAppend ==
  /\ stack # << >>
  /\ Top.k = "attach" /\ Top.pc = "append"
  /\ CanRetranslatorFor(Top.p)
  /\ retranslatorFor(Top.p, << Top.f >>)
  /\ stack' = ReplaceTop([Top EXCEPT !.pc = AfterAppend])
  /\ trace' = Append(trace, TraceEv("append", Top.f, "attach", Len(stack)))
  /\ UNCHANGED << op, attached >>

\* line 207: retranslateFunc()
AttachInvoke ==
  /\ stack # << >>
  /\ Top.k = "attach" /\ Top.pc = "invoke"
  /\ stack' = Append(ReplaceTop([Top EXCEPT !.pc = "ret"]),
                     [NoFrame EXCEPT !.k = "call", !.f = Top.f, !.pc = "body"])
  /\ trace' = Append(trace, TraceEv("call", Top.f, "attach", Len(stack)))
  /\ UNCHANGED << children, eventFilters, retr, op, attached, returned >>

\* line 208: attachRetranslator returns
AttachReturn ==
  /\ stack # << >>
  /\ Top.k = "attach" /\ Top.pc = "ret"
  /\ stack' = Pop
  /\ op' = AfterPop
  /\ UNCHANGED << children, eventFilters, retr, trace, attached, returned >>

\* the body of a callback returns: "A" always does, "T" when it does not throw
CallPlain ==
  /\ stack # << >>
  /\ Top.k = "call" /\ Top.pc = "body" /\ Top.f \in {"A", "T"}
  /\ stack' = Pop
  /\ UNCHANGED << children, eventFilters, retr, op, trace, attached, returned >>

\* a wrong unwinding, as if the loop caught the error of a callback
UnwindOneFrame(st) == SubSeq(st, 1, Len(st) - 1)

\* attachRetranslator and eventFilter have no try block (lines 203-234): an
\* error leaves every frame of this file
Unwind(st) == << >>

\* the body of a callback throws
CallThrow ==
  /\ stack # << >>
  /\ Top.k = "call" /\ Top.pc = "body" /\ Top.f = "T"
  /\ stack' = Unwind(stack)
  /\ op' = [op EXCEPT !.status = "thrown"]
  /\ UNCHANGED << children, eventFilters, retr, trace, attached, returned >>

\* the body of a callback that attaches a further callback
CallNested ==
  /\ stack # << >>
  /\ Top.k = "call" /\ Top.pc = "body" /\ Top.f = "N"
  /\ stack' = Append(ReplaceTop([Top EXCEPT !.pc = "ret"]),
                     [NoFrame EXCEPT !.k = "attach", !.p = NestedParent,
                                     !.f = NestedFunc, !.pc = "append"])
  /\ attached' = [attached EXCEPT ![NestedParent] = Append(@, NestedFunc)]
  /\ UNCHANGED << children, eventFilters, retr, op, trace, returned >>

\* a callback that attached a further callback returns
CallReturn ==
  /\ stack # << >>
  /\ Top.k = "call" /\ Top.pc = "ret"
  /\ stack' = Pop
  /\ UNCHANGED << children, eventFilters, retr, op, trace, attached, returned >>

\* a wrong eventFilter that reacts to every event type
IsLanguageChangeAlways(ev) == TRUE

\* line 223: e->type() == QEvent::LanguageChange
IsLanguageChange(ev) == ev = "LanguageChange"

\* a wrong eventFilter that reacts to events of every object
IsParentAlways(r, obj) == TRUE

\* line 221: obj == parent()
IsParent(r, obj) == obj = retr[r].parent

\* eventFilter( obj, e ) of Retranslator r is called by the host: lines 221-225,
\* foreach copies the list before the first iteration
EventFilterBegin(r, obj, ev) ==
  /\ Idle
  /\ retr[r].alive
  /\ Len(FuncsOf(NestedParent)) + Count(retr[r].m_retranslateFuncList, "N") <= MaxFuncs
  /\ stack' = << [NoFrame EXCEPT !.k = "filter", !.r = r, !.obj = obj, !.ev = ev,
                                 !.snap = retr[r].m_retranslateFuncList, !.i = 1,
                                 !.pc = IF IsParent(r, obj) /\ IsLanguageChange(ev)
                                        THEN "loop" ELSE "ret"] >>
  /\ op' = [NoOp EXCEPT !.kind = "eventFilter", !.r = r, !.obj = obj, !.ev = ev,
                        !.p = retr[r].parent, !.status = "running",
                        !.before = retr[r].m_retranslateFuncList,
                        !.att = attached[retr[r].parent],
                        !.redo = IF /\ op.kind = "eventFilter" /\ op.status = "thrown"
                                    /\ op.r = r /\ obj = retr[r].parent
                                    /\ ev = "LanguageChange"
                                 THEN << op.before >> ELSE << >>]
  /\ trace' = << >>
  /\ UNCHANGED << children, eventFilters, retr, attached, returned >>

\* a wrong loop over the list as it is now, not over foreach's copy
LoopListLive(fr) == retr[fr.r].m_retranslateFuncList

\* the container the foreach of line 225 iterates over: its own copy
LoopList(fr) == fr.snap

\* a wrong loop that leaves out every second callback
NextIndexSkip(i) == i + 2

\* the foreach of line 225 advances by one element
NextIndex(i) == i + 1

\* lines 225-228: func() for the next element
FilterInvoke ==
  /\ stack # << >>
  /\ Top.k = "filter" /\ Top.pc = "loop"
  /\ Top.i <= Len(LoopList(Top))
  /\ stack' = Append(ReplaceTop([Top EXCEPT !.i = NextIndex(Top.i)]),
                     [NoFrame EXCEPT !.k = "call", !.f = LoopList(Top)[Top.i],
                                     !.pc = "body"])
  /\ trace' = Append(trace, TraceEv("call", LoopList(Top)[Top.i], "filter", Len(stack)))
  /\ UNCHANGED << children, eventFilters, retr, op, attached, returned >>

\* line 229: emit languageChange()
FilterEmit ==
  /\ stack # << >>
  /\ Top.k = "filter" /\ Top.pc = "loop"
  /\ Top.i > Len(LoopList(Top))
  /\ stack' = ReplaceTop([Top EXCEPT !.pc = "ret"])
  /\ trace' = Append(trace, TraceEv("emit", "languageChange", "filter", Len(stack)))
  /\ UNCHANGED << children, eventFilters, retr, op, attached, returned >>

\* a wrong eventFilter that swallows the LanguageChange events
BaseEventFilterSwallows(obj, ev) == IF ev = "LanguageChange" THEN "true" ELSE "false"

\* QObject::eventFilter( obj, e ), the base implementation called in line 233:
\* the event is not filtered out
BaseEventFilter(obj, ev) == "false"

\* line 233: return QObject::eventFilter( obj, e )
FilterReturn ==
  /\ stack # << >>
  /\ Top.k = "filter" /\ Top.pc = "ret"
  /\ stack' = Pop
  /\ op' = [AfterPop EXCEPT !.result = 0, !.consumed = BaseEventFilter(Top.obj, Top.ev)]
  /\ UNCHANGED << children, eventFilters, retr, trace, attached, returned >>

OtherChildren(p) == {i \in 1..Len(children[p]) : children[p][i].cls = "QObject"}

\* code outside this file gives a parent a child that is no Retranslator
AddChild(p) ==
  /\ Idle
  /\ Cardinality(OtherChildren(p)) < MaxOther
  /\ children' = [children EXCEPT ![p] = Append(@, OtherChild(Len(@) + 1))]
  /\ UNCHANGED << eventFilters, retr, stack, op, trace, attached, returned >>

HubNext ==
  \/ \E p \in Parents : RetranslatorForCall(p)
  \/ \E p \in Parents, f \in Callbacks : AttachBegin(p, f)
  \/ AttachAppend
  \/ AttachInvoke
  \/ AttachReturn
  \/ CallPlain
  \/ CallThrow
  \/ CallNested
  \/ CallReturn
  \/ \E r \in RetrIds, obj \in Parents, ev \in EventTypes : EventFilterBegin(r, obj, ev)
  \/ FilterInvoke
  \/ FilterEmit
  \/ FilterReturn
  \/ \E p \in Parents : AddChild(p)

RegNext ==
  \/ \E l \in InstallLocales, prefix \in Prefixes : InstallBegin(l, prefix)
  \/ Construct
  \/ New
  \/ CheckPrefix
  \/ \E exists \in BOOLEAN : DirExists(exists)
  \/ \E ok \in BOOLEAN : Primary(ok)
  \/ \E ok \in BOOLEAN : Fallback(ok)
  \/ Remove
  \/ Delete
  \/ Install
  \/ Store
  \/ SetName
  \/ \E t \in ForeignIds : ForeignInstall(t)

\* the translator registry on its own
SpecInstall == Init /\ [][RegNext /\ UNCHANGED hubVars]_vars

\* TranslationLoader's constructor on every locale
SpecLocale == Init /\ [][(\E l \in Locales : NewTranslationLoader(l)) /\ UNCHANGED hubVars]_vars

\* the retranslation hub on its own
SpecHub == Init /\ [][HubNext /\ UNCHANGED regVars]_vars

\* one locale and one branding prefix, for the specification that runs both parts
OneLocale == MkLocale(<<"e", "-", "C">>, "English", "LatinScript")

\* the hub together with installTranslator: the hub calls that touch the
\* callback lists, and installTranslator with one input and loads that succeed
AllNext ==
  \/ /\ UNCHANGED regVars
     /\ \/ \E p \in Parents : RetranslatorForCall(p)
        \/ \E p \in Parents, f \in Callbacks : AttachBegin(p, f)
        \/ AttachAppend
        \/ AttachInvoke
        \/ AttachReturn
        \/ CallPlain
        \/ CallThrow
        \/ CallNested
        \/ CallReturn
        \/ \E r \in RetrIds : EventFilterBegin(r, retr[r].parent, "LanguageChange")
        \/ FilterInvoke
        \/ FilterEmit
        \/ FilterReturn
  \/ /\ UNCHANGED hubVars
     /\ \/ InstallBegin(OneLocale, EmptyString)
        \/ Construct
        \/ New
        \/ CheckPrefix
        \/ Primary(TRUE)
        \/ Remove
        \/ Delete
        \/ Install
        \/ Store
        \/ SetName

SpecAll == Init /\ [][AllNext]_vars

\* ------------------------------------------------------------------ claims
IsPrefix(a, b) == Len(a) <= Len(b) /\ SubSeq(b, 1, Len(a)) = a

Names(evs) == [i \in 1..Len(evs) |-> evs[i].x]

\* the callbacks the outermost eventFilter has called itself, in call order
FilterCalls == Names(SelectSeq(trace, LAMBDA e : e.e = "call" /\ e.by = "filter" /\ e.d = 1))

Emits == SelectSeq(trace, LAMBDA e : e.e = "emit")

\* the outermost call is eventFilter with a LanguageChange for its own parent
DispatchOp == op.kind = "eventFilter" /\ op.obj = op.p /\ op.ev = "LanguageChange"

\* C1: a LanguageChange delivered to P calls the callbacks attached to P (those
\* attached when the event is delivered), each once and in attach order, and
\* then emits languageChange once, as the last thing the dispatch does.  While
\* the dispatch runs the callbacks called so far are a prefix of that sequence
\* and nothing is emitted before the last of them has run; a dispatch that
\* returns has called all of them and emitted exactly once.
C1_DispatchInOrderThenEmit ==
  DispatchOp =>
    /\ IsPrefix(FilterCalls, op.att)
    /\ Len(Emits) <= 1
    /\ Len(Emits) = 1 => /\ FilterCalls = op.att
                         /\ trace[Len(trace)].e = "emit"
                         /\ Len(stack) <= 1
    /\ op.status = "returned" => Len(Emits) = 1

C1_Witness ==
  /\ DispatchOp
  /\ op.status = "returned"
  /\ op.att = << "N", "A" >>
  /\ FilterCalls = << "N", "A" >>
  /\ Len(Emits) = 1

\* what the outermost attachRetranslator has done itself
OwnAttachEvents == SelectSeq(trace, LAMBDA e : e.d = 1)

\* C2: attachRetranslator( P, f ) appends f and calls f exactly once before it
\* returns, calls nothing else and emits no languageChange; every call made
\* by an attachRetranslator, at whatever depth, is the call of its own argument
\* right after the append.
C2_AttachCallsOnce ==
  /\ op.kind = "attach" =>
       /\ Len(Emits) = 0
       /\ \A k \in 1..Len(trace) : trace[k].by = "attach"
       /\ Len(OwnAttachEvents) <= 2
       /\ Len(OwnAttachEvents) >= 1 =>
            OwnAttachEvents[1] = TraceEv("append", op.f, "attach", 1)
       /\ Len(OwnAttachEvents) = 2 =>
            OwnAttachEvents[2] = TraceEv("call", op.f, "attach", 1)
       /\ op.status \in {"returned", "thrown"} => Len(OwnAttachEvents) = 2
  /\ \A k \in 1..Len(trace) :
       /\ (trace[k].e = "call" /\ trace[k].by = "attach") =>
            /\ k > 1
            /\ trace[k - 1] = [trace[k] EXCEPT !.e = "append"]
       /\ (trace[k].e = "append" /\ k < Len(trace)) =>
            trace[k + 1] = [trace[k] EXCEPT !.e = "call"]
       /\ (trace[k].e = "append" /\ k = Len(trace)) => stack # << >>

C2_Witness ==
  /\ op.kind = "attach"
  /\ op.status = "returned"
  /\ op.f = "A"
  /\ op.before = << "A", "T" >>
  /\ trace = << TraceEv("append", "A", "attach", 1), TraceEv("call", "A", "attach", 1) >>

RetranslatorChildren(p) ==
  {i \in 1..Len(children[p]) : children[p][i].cls = "Retranslator"}

\* C3: a parent has at most one Retranslator among its children and at most
\* one event filter, and every retranslatorFor call for one parent has returned
\* the same object, the one that is among the children.
C3_OneRetranslatorPerParent ==
  \A p \in Parents :
    /\ Cardinality(RetranslatorChildren(p)) <= 1
    /\ Cardinality({r \in RetrIds : retr[r].alive /\ retr[r].parent = p}) <= 1
    /\ Len(eventFilters[p]) <= 1
    /\ Cardinality(returned[p]) <= 1
    /\ returned[p] = {children[p][i].id : i \in RetranslatorChildren(p)}
    /\ returned[p] = Range(eventFilters[p])

C3_Witness ==
  /\ op.kind = "retranslatorFor"
  /\ trace = << >>
  /\ returned[op.p] = {op.result}
  /\ children[op.p][1].cls = "QObject"
  /\ Len(retr[op.result].m_retranslateFuncList) >= 2

\* canonicalName as the specification words it
canonicalNameRef(locale) ==
  IF locale.language = "Serbian" /\ locale.script = "LatinScript" THEN SrLatin
  ELSE IF locale.name = << "C" >> THEN << "e", "n" >>
  ELSE [i \in 1..Len(locale.name) |->
          IF locale.name[i] = "-" THEN "_" ELSE locale.name[i]]

\* C4: when installTranslator( L, prefix ) has returned, translatorLocaleName()
\* is canonicalName( L ), whatever the loads did; before the first call it is
\* the empty string.
C4_TranslatorLocaleName ==
  /\ installs = 0 => s_translatorLocaleName = EmptyString
  /\ (installs >= 1 /\ call.pc = "idle") =>
       s_translatorLocaleName = canonicalNameRef(call.locale)

NoLoadSucceeded == \A k \in 1..Len(ilog) : ilog[k].e = "load" => ~ilog[k].ok

C4_Witness ==
  /\ installs = 2
  /\ call.pc = "idle"
  /\ call.locale.name = << "e", "-", "C" >>
  /\ s_translatorLocaleName = << "e", "_", "C" >>
  /\ NoLoadSucceeded

\* positions of the host list that hold a catalog of this file for a domain
InstalledOf(dom) ==
  {i \in 1..Len(translators) :
     translators[i] \in CatalogIds /\ heap[translators[i]].dom = dom}

\* C5: in every state, the states inside installTranslator included, the host
\* list holds at most one catalog of this file per domain, so at most three.
C5_AtMostOnePerDomain ==
  /\ \A dom \in Domains : Cardinality(InstalledOf(dom)) <= 1
  /\ Cardinality({i \in 1..Len(translators) : translators[i] \in CatalogIds}) <= 3

C5_Witness ==
  /\ installs = 2
  /\ call.pc = "store"
  /\ Dom = "Timezone"
  /\ Cardinality(OwnInstalled) = 3
  /\ Len(translators) = 4

DomIdx(dom) ==
  IF dom = "Branding" THEN 1 ELSE IF dom = "Timezone" THEN 2 ELSE 3

\* C7: inside one installTranslator call the slots are swapped in the order
\* Branding, Timezone, Application: nothing of a later domain's swap happens
\* before the earlier domain's new catalog has been stored in its slot.
C7_BrandingThenTimezoneThenApplication ==
  /\ \A i \in 1..Len(ilog), j \in 1..Len(ilog) :
       i < j => DomIdx(ilog[i].dom) <= DomIdx(ilog[j].dom)
  /\ \A j \in 1..Len(ilog) :
       DomIdx(ilog[j].dom) > 1 =>
         \E i \in 1..j : /\ i < j
                         /\ ilog[i].e = "store"
                         /\ DomIdx(ilog[i].dom) = DomIdx(ilog[j].dom) - 1
  /\ call.pc # "idle" =>
       \A dom \in Domains :
         /\ DomIdx(dom) < call.d =>
              (Slot(dom) # NullPtr /\ heap[Slot(dom)].era = installs)
         /\ DomIdx(dom) > call.d => Slot(dom) = call.before[dom]

C7_Witness ==
  /\ installs = 2
  /\ call.pc = "remove"
  /\ Dom = "Application"
  /\ heap[s_brandingTranslator].era = 2
  /\ heap[s_tztranslator].era = 2
  /\ heap[s_translator].era = 1

\* C8: whatever the loads did, when installTranslator returns every slot holds
\* a catalog allocated during that call, installed once in the host list and
\* empty when no load for it succeeded, and the catalog the slot held before
\* the call is uninstalled and destroyed.
C8_AlwaysFreshCatalogs ==
  (call.pc = "idle" /\ installs >= 1) =>
    \A dom \in Domains :
      LET new == Slot(dom)
          old == call.before[dom]
      IN /\ new \in CatalogIds
         /\ new # old
         /\ heap[new].st = "live"
         /\ heap[new].dom = dom
         /\ \E k \in 1..Len(ilog) : ilog[k].e = "new" /\ ilog[k].id = new
         /\ Count(translators, new) = 1
         /\ (\A k \in 1..Len(ilog) :
               (ilog[k].e = "load" /\ ilog[k].dom = dom) => ~ilog[k].ok)
              => heap[new].content = NoTarget
         /\ old # NullPtr => (heap[old].st = "dead" /\ old \notin Range(translators))

C8_Witness ==
  /\ installs = 2
  /\ call.pc = "idle"
  /\ NoLoadSucceeded
  /\ Cardinality({k \in 1..Len(ilog) : ilog[k].e = "load"}) = 6
  /\ \A dom \in Domains : heap[Slot(dom)].content = NoTarget

BrandingEvents == SelectSeq(ilog, LAMBDA e : e.dom = "Branding")

\* the branding prefix is empty, or the exists() test of its directory failed
BrandingSkipped ==
  \/ isEmpty(call.prefix)
  \/ \E k \in 1..Len(BrandingEvents) :
       BrandingEvents[k].e = "exists" /\ ~BrandingEvents[k].ok

\* C9: with an empty branding prefix BrandingLoader::tryLoad touches neither the
\* file system nor the catalog; with an empty prefix or a missing directory it
\* makes no load attempt and returns false; installTranslator still puts a
\* freshly allocated, empty catalog into the branding slot.
C9_BrandingSkipped ==
  installs >= 1 =>
    /\ isEmpty(call.prefix) =>
         \A k \in 1..Len(BrandingEvents) : BrandingEvents[k].e \notin {"exists", "load"}
    /\ BrandingSkipped =>
         /\ \A k \in 1..Len(BrandingEvents) :
              /\ BrandingEvents[k].e # "load"
              /\ BrandingEvents[k].e = "tryLoad" => ~BrandingEvents[k].ok
         /\ (\E k \in 1..Len(BrandingEvents) : BrandingEvents[k].e = "store") =>
              /\ \E k \in 1..Len(BrandingEvents) : BrandingEvents[k].e = "tryLoad"
              /\ s_brandingTranslator \in CatalogIds
              /\ s_brandingTranslator # call.before["Branding"]
              /\ heap[s_brandingTranslator].st = "live"
              /\ heap[s_brandingTranslator].era = installs
              /\ heap[s_brandingTranslator].content = NoTarget
              /\ Count(translators, s_brandingTranslator) = 1

C9_Witness ==
  /\ installs = 2
  /\ call.pc = "idle"
  /\ isEmpty(call.prefix)
  /\ call.before["Branding"] # NullPtr
  /\ heap[s_brandingTranslator].content = NoTarget
  /\ \E k \in 1..Len(ilog) : ilog[k].e = "load" /\ ilog[k].ok

\* C10: mungeLocaleName is sr@latin for Serbian in Latin script, otherwise en
\* for the name C, otherwise the name with every dash turned into an
\* underscore; the result never contains a dash.
C10_CanonicalName ==
  loader # NoLoader =>
    /\ loader.m_localeName = canonicalNameRef(loader.m_locale)
    /\ \A i \in 1..Len(loader.m_localeName) : loader.m_localeName[i] # "-"

C10_Witness ==
  /\ loader.m_locale.name = << "-", "C", "-" >>
  /\ loader.m_locale.language = "Serbian"
  /\ loader.m_locale.script = "CyrillicScript"
  /\ loader.m_localeName = << "_", "C", "_" >>

\* the resource prefixes the specification names, below the resource root
ResourceRoot == << ":", "/" >>
AppPrefixRef == ResourceRoot \o << "l", "a", "n", "g", "/", "c", "a", "l", "a", "m", "a", "r", "e", "s", "_" >>
TzPrefixRef == ResourceRoot \o << "l", "a", "n", "g", "/", "t", "z", "_" >>

PrefixRef(dom) == IF dom = "Timezone" THEN TzPrefixRef ELSE AppPrefixRef

EventsOf(dom, e) == SelectSeq(ilog, LAMBDA x : x.dom = dom /\ x.e = e)

\* C11: the Application and the Timezone loader first try <prefix><canonical
\* name>; <prefix>en is tried if and only if that failed, and after it; there
\* is no third attempt; tryLoad returns true exactly when one of the attempts
\* succeeded.
C11_PrimaryThenDefault ==
  \A dom \in {"Application", "Timezone"} :
    LET loads == EventsOf(dom, "load")
        rets == EventsOf(dom, "tryLoad")
    IN /\ Len(loads) <= 2
       /\ Len(rets) <= 1
       /\ Len(loads) >= 1 =>
            loads[1].target = PathTarget(PrefixRef(dom) \o canonicalNameRef(call.locale))
       /\ Len(loads) = 2 =>
            /\ ~loads[1].ok
            /\ loads[2].target = PathTarget(PrefixRef(dom) \o << "e", "n" >>)
       /\ Len(rets) = 1 =>
            /\ Len(loads) >= 1
            /\ Len(loads) = 2 <=> ~loads[1].ok
            /\ rets[1].ok <=> \E k \in 1..Len(loads) : loads[k].ok
            /\ \A i \in 1..Len(ilog), j \in 1..Len(ilog) :
                 (ilog[i].dom = dom /\ ilog[i].e = "load" /\
                  ilog[j].dom = dom /\ ilog[j].e = "tryLoad") => i < j

C11_Witness ==
  /\ installs = 2
  /\ call.pc = "idle"
  /\ call.locale.name = << "e", "-", "C" >>
  /\ Len(EventsOf("Application", "load")) = 2
  /\ EventsOf("Application", "load")[2].ok
  /\ EventsOf("Application", "tryLoad")[1].ok
  /\ Len(EventsOf("Timezone", "load")) = 1

\* C12: an eventFilter call for another object than the Retranslator's parent,
\* or for another event type than LanguageChange, calls no callback and emits
\* nothing; every eventFilter call that returns reports the event as not
\* consumed.  So a LanguageChange for P runs nothing attached to another Q.
C12_OtherEventsIgnored ==
  op.kind = "eventFilter" =>
    /\ ~DispatchOp => (trace = << >> /\ Len(stack) <= 1)
    /\ op.status = "returned" => op.consumed = "false"
    /\ op.status # "returned" => op.consumed = "unset"
    /\ \A k \in 1..Len(trace) :
         (trace[k].by = "filter" /\ trace[k].e = "call") =>
           \E i \in 1..Len(op.before) : op.before[i] = trace[k].x

C12_Witness ==
  /\ op.kind = "eventFilter"
  /\ op.status = "returned"
  /\ op.ev = "LanguageChange"
  /\ op.obj = "p1"
  /\ op.p = "p2"
  /\ op.before = << "A" >>
  /\ Len(attached["p1"]) >= 1
  /\ trace = << >>
  /\ op.consumed = "false"

\* the outermost call is a LanguageChange dispatch that a callback's error ended
ThrownDispatch == DispatchOp /\ op.status = "thrown"

\* the callbacks appended while the outermost call ran
Appended == Names(SelectSeq(trace, LAMBDA e : e.e = "append"))

\* C13: when a callback raises an error during a LanguageChange dispatch on P,
\* the error leaves the dispatch: the callbacks before it have run once each,
\* in order, the ones after it have not run, languageChange is not emitted, and
\* nothing is taken out of P's list; the next LanguageChange for P starts over
\* with the whole list and, when no callback raises, runs all of it.
C13_ErrorAbortsBatch ==
  /\ ThrownDispatch =>
       /\ stack = << >>
       /\ Len(FilterCalls) >= 1
       /\ FilterCalls[Len(FilterCalls)] = "T"
       /\ IsPrefix(FilterCalls, op.before)
       /\ Len(Emits) = 0
       /\ retr[op.r].m_retranslateFuncList =
            op.before \o (IF op.p = NestedParent THEN Appended ELSE << >>)
  /\ (DispatchOp /\ op.redo # << >>) =>
       /\ IsPrefix(op.redo[1], op.before)
       /\ stack # << >> => stack[1].snap = op.before
       /\ op.status = "returned" => (FilterCalls = op.before /\ Len(Emits) = 1)

C13_Witness ==
  /\ ThrownDispatch
  /\ op.redo = << << "A", "T", "A" >> >>
  /\ op.before = << "A", "T", "A" >>
  /\ FilterCalls = << "A", "T" >>
  /\ retr[op.r].m_retranslateFuncList = << "A", "T", "A" >>

\* the callback list of the Retranslator of p, empty when p has none
ListOf(p) ==
  LET rs == {r \in RetrIds : retr[r].alive /\ retr[r].parent = p}
  IN IF rs = {} THEN << >> ELSE retr[CHOOSE r \in rs : TRUE].m_retranslateFuncList

\* the callback of an attachRetranslator( p, . ) that has not reached line 206
PendingAttach(p) ==
  IF stack # << >> /\ Top.k = "attach" /\ Top.pc = "append" /\ Top.p = p
  THEN << Top.f >> ELSE << >>

ListsAreWhatWasAttached ==
  /\ \A p \in Parents : attached[p] = ListOf(p) \o PendingAttach(p)
  /\ (DispatchOp /\ op.status = "returned") =>
       \A f \in Callbacks : Count(FilterCalls, f) = Count(op.before, f)

\* C14: the callback list of a Retranslator is append-only.  In every state it
\* is the sequence of callbacks passed to attachRetranslator for its parent, in
\* call order, duplicates kept; every step (of attachRetranslator,
\* retranslatorFor, eventFilter, installTranslator) leaves each list as it is
\* or adds one entry at its end; a callback attached twice is called twice by a
\* LanguageChange dispatch.
C14_AppendOnly ==
  [][ /\ ListsAreWhatWasAttached'
      /\ \A r \in RetrIds :
           /\ IsPrefix(retr[r].m_retranslateFuncList, retr'[r].m_retranslateFuncList)
           /\ Len(retr'[r].m_retranslateFuncList) <= Len(retr[r].m_retranslateFuncList) + 1
    ]_vars

C14_Witness ==
  /\ installs = 2
  /\ call.pc = "store"
  /\ ListOf("p1") = << "A", "A" >>
  /\ attached["p1"] = << "A", "A" >>
  /\ DispatchOp
  /\ op.status = "returned"
  /\ FilterCalls = << "A", "A" >>

\* the steps of installTranslator at which no slot is in the middle of lines 154-159
NoSwapInProgress ==
  call.pc \in {"idle", "construct", "new", "checkPrefix", "dirExists", "primary",
               "fallback", "remove", "setName"}

\* C15: whenever no swap is in progress the catalogs of this file in the host
\* list are exactly the catalogs the non-empty slots hold, each installed
\* once; and in no state, the steps inside a swap included, does the host list
\* hold a destroyed catalog.
C15_HostListPairedWithSlots ==
  /\ NoSwapInProgress =>
       /\ OwnInstalled = {Slot(dom) : dom \in Domains} \ {NullPtr}
       /\ \A t \in OwnInstalled : Count(translators, t) = 1
  /\ \A i \in 1..Len(translators) :
       translators[i] \in CatalogIds => heap[translators[i]].st = "live"

C15_Witness ==
  /\ installs = 2
  /\ call.pc = "construct"
  /\ call.d = 2
  /\ Len(translators) = 4
  /\ heap[s_brandingTranslator].era = 2
  /\ heap[s_tztranslator].era = 1
  /\ heap[1].st = "dead"

\* the last path separator of a string, 0 when it has none
LastSepRef(s) ==
  LET seps == {i \in 1..Len(s) : s[i] = "/"}
  IN IF seps = {} THEN 0 ELSE CHOOSE i \in seps : \A j \in seps : j <= i

\* the parts of a string before and after its last path separator
BeforeLastSepRef(s) == IF LastSepRef(s) = 0 THEN << >> ELSE SubSeq(s, 1, LastSepRef(s) - 1)
AfterLastSepRef(s) == SubSeq(s, LastSepRef(s) + 1, Len(s))

\* the directory a path names: relative paths start at the working directory
DirectoryRef(path) ==
  IF path = << >> THEN << "/", "w" >>
  ELSE IF Head(path) = "/" THEN path
  ELSE << "/", "w", "/" >> \o path

BrandingDirExisted ==
  \E k \in 1..Len(BrandingEvents) : BrandingEvents[k].e = "exists" /\ BrandingEvents[k].ok

\* C16: with a non-empty branding prefix whose directory exists,
\* BrandingLoader::tryLoad first makes the structured load ( locale, stem, "_",
\* directory ), directory and stem being the parts of the prefix before and
\* after its last separator; only when that fails it loads the file at the
\* literal path prefix + "en", not a structured target, and returns what that
\* load returned.
C16_BrandingStructuredThenLiteral ==
  (installs >= 1 /\ ~isEmpty(call.prefix) /\ BrandingDirExisted) =>
    LET loads == EventsOf("Branding", "load")
        rets == EventsOf("Branding", "tryLoad")
        tests == EventsOf("Branding", "exists")
    IN /\ Len(tests) = 1
       /\ tests[1].target.path = BeforeLastSepRef(call.prefix)
       /\ Len(loads) <= 2
       /\ Len(rets) <= 1
       /\ Len(loads) >= 1 =>
            loads[1].target =
              [form |-> "structured", path |-> << >>, locale |-> call.locale,
               stem |-> AfterLastSepRef(call.prefix), sep |-> << "_" >>,
               dir |-> DirectoryRef(BeforeLastSepRef(call.prefix))]
       /\ Len(loads) = 2 =>
            /\ ~loads[1].ok
            /\ loads[2].target.form = "path"
            /\ loads[2].target.path = call.prefix \o << "e", "n" >>
       /\ Len(rets) = 1 =>
            /\ Len(loads) >= 1
            /\ Len(loads) = 2 <=> ~loads[1].ok
            /\ Len(loads) = 1 => rets[1].ok
            /\ Len(loads) = 2 => (rets[1].ok <=> loads[2].ok)

C16_Witness ==
  /\ installs = 2
  /\ call.pc = "idle"
  /\ call.prefix = << "d", "/", "b" >>
  /\ BrandingDirExisted
  /\ Len(EventsOf("Branding", "load")) = 2
  /\ EventsOf("Branding", "load")[2].ok
  /\ EventsOf("Branding", "tryLoad")[1].ok
  /\ heap[s_brandingTranslator].content.path = << "d", "/", "b", "e", "n" >>

\* the callbacks called by an attachRetranslator while the outermost call ran
AttachCalls == Names(SelectSeq(trace, LAMBDA e : e.e = "call" /\ e.by = "attach"))

\* what a dispatch on op.p has added to the list of op.p so far
AppendedToOwn == IF op.p = NestedParent THEN Appended ELSE << >>

\* the batch of a dispatch is the list as it was when the dispatch began
BatchIsSnapshot ==
  DispatchOp =>
    /\ IsPrefix(FilterCalls, op.before)
    /\ stack # << >> => stack[1].snap = op.before
    /\ retr[op.r].m_retranslateFuncList = op.before \o AppendedToOwn
    /\ IsPrefix(AttachCalls, Appended)
    /\ Len(Appended) <= Len(AttachCalls) + 1
    /\ \A k \in 1..Len(Appended) : Appended[k] = NestedFunc
    /\ Len(Emits) = 1 => FilterCalls = op.before
    /\ op.status = "returned" =>
         /\ FilterCalls = op.before
         /\ Len(Emits) = 1
         /\ AttachCalls = Appended
         /\ Len(Appended) = Count(op.before, "N")

\* a dispatch on the same parent that begins after a dispatch has returned
\* takes the list with what that dispatch appended as its batch
LaterDispatchRunsAppended ==
  (/\ DispatchOp /\ op.status = "returned"
   /\ stack = << >> /\ stack' # << >>
   /\ op'.kind = "eventFilter" /\ op'.r = op.r /\ op'.obj = op'.p
   /\ op'.ev = "LanguageChange") =>
     /\ op'.before = op.before \o AppendedToOwn
     /\ stack'[1].snap = op'.before
     /\ stack'[1].pc = "loop"

\* C17: a LanguageChange dispatch on P runs the callbacks that were in P's list
\* when the dispatch began, each once and in order, and then emits
\* languageChange once.  A callback of the batch that calls
\* attachRetranslator( P, g ) has g appended and called once by that attach; g
\* is not called by the dispatch that is running, and is part of the batch of
\* every later dispatch on P.
C17_ReentrantSnapshot == [][BatchIsSnapshot' /\ LaterDispatchRunsAppended]_vars

C17_Witness ==
  /\ DispatchOp
  /\ op.status = "returned"
  /\ op.p = NestedParent
  /\ op.before = << "N", "A" >>
  /\ FilterCalls = << "N", "A" >>
  /\ Appended = << "A" >>
  /\ AttachCalls = << "A" >>
  /\ Len(Emits) = 1
  /\ retr[op.r].m_retranslateFuncList = << "N", "A", "A" >>

\* the steps that prepare the new catalog of a domain
PrepareSteps == {"new", "exists", "load", "tryLoad"}

\* C18: in every slot swap the new catalog is allocated and tryLoad has
\* returned before the old catalog of the slot is uninstalled; the uninstall
\* is followed by the destruction of the old catalog and then at once by the
\* install of the new one, so no load is attempted while the domain has no
\* catalog in the host list.
C18_LoadBeforeDrop ==
  /\ \A k \in 1..Len(ilog) :
       ilog[k].e = "remove" =>
         /\ ilog[k].id = call.before[ilog[k].dom]
         /\ ilog[k].id # NullPtr
         /\ k > 2
         /\ ilog[k - 1].e = "tryLoad" /\ ilog[k - 1].dom = ilog[k].dom
         /\ \E i \in 1..(k - 1) :
              /\ ilog[i].e = "new" /\ ilog[i].dom = ilog[k].dom
              /\ ilog[i].id = ilog[k - 1].id
              /\ ilog[i].id # ilog[k].id
         /\ \A m \in 1..Len(ilog) :
              (ilog[m].dom = ilog[k].dom /\ ilog[m].e \in PrepareSteps) => m < k
         /\ k + 1 <= Len(ilog) =>
              /\ ilog[k + 1].e = "delete"
              /\ ilog[k + 1].id = ilog[k].id
         /\ k + 2 <= Len(ilog) =>
              /\ ilog[k + 2].e = "install"
              /\ ilog[k + 2].dom = ilog[k].dom
              /\ ilog[k + 2].id = ilog[k - 1].id
  /\ \A k \in 1..Len(ilog) :
       (ilog[k].e = "install" /\ call.before[ilog[k].dom] # NullPtr) =>
         /\ k > 2
         /\ ilog[k - 1].e = "delete" /\ ilog[k - 1].id = call.before[ilog[k].dom]
         /\ ilog[k - 2].e = "remove" /\ ilog[k - 2].id = call.before[ilog[k].dom]
  /\ (call.pc \in {"delete", "install"} /\ call.before[Dom] # NullPtr) =>
       /\ \A i \in 1..Len(translators) :
            translators[i] \in CatalogIds => heap[translators[i]].dom # Dom
       /\ heap[call.translator].st = "live"
       /\ ilog[Len(ilog)].e = (IF call.pc = "delete" THEN "remove" ELSE "delete")

C18_Witness ==
  /\ installs = 2
  /\ call.pc = "install"
  /\ call.d = 1
  /\ Len(ilog) = 7
  /\ ilog[3].e = "load" /\ ~ilog[3].ok
  /\ ilog[4].e = "load" /\ ilog[4].ok
  /\ ilog[5].e = "tryLoad" /\ ilog[5].ok
  /\ ilog[6].e = "remove"
  /\ ilog[7].e = "delete"
  /\ heap[call.translator].content = PathTarget(call.prefix \o << "e", "n" >>)

====
